---- MODULE Spec2Model ----
(***************************************************************************)
(* Model of jupyter/IGraalVM/install.py: the installer of the GraalVM      *)
(* Jupyter kernel.  The program is one sequential pass: parse the command  *)
(* line, resolve the GraalVM home, run `mvn package`, move the jar into    *)
(* the kernel directory, optionally run native-image, register the kernel  *)
(* directory with the KernelSpecManager and write kernel.json into the     *)
(* installed destination.                                                  *)
(*                                                                         *)
(* Python strings are sequences of one-character strings, so that          *)
(* concatenation, split, lstrip and substring tests are computed.  An      *)
(* optional value (None or a string) is a sequence of length at most one:  *)
(* <<>> is None and <<s>> is the string s.  A dict is a function.          *)
(***************************************************************************)
EXTENDS Integers, Sequences, FiniteSets, TLC

\* ------------------------------------------------------------------------
\* String literals of the source
\* ------------------------------------------------------------------------
S_NO_TIMEOUT == <<"N", "O", "_", "T", "I", "M", "E", "O", "U", "T">>
S_MinusOne == <<"-", "1">>
S_Thirty == <<"3", "0">>
S_timeout == <<"t", "i", "m", "e", "o", "u", "t">>
S_DashDashTimeout == <<"-", "-", "t", "i", "m", "e", "o", "u", "t">>
S_Dash == "-"
S_GraalVM == <<"G", "r", "a", "a", "l", "V", "M">>
S_GraalVMNative == <<"G", "r", "a", "a", "l", "V", "M", "N", "a", "t", "i", "v", "e">>
S_GraalVM_Native == <<"G", "r", "a", "a", "l", "V", "M", " ", "N", "a", "t", "i", "v", "e">>
S_Native == <<"N", "a", "t", "i", "v", "e">>
S_message == <<"m", "e", "s", "s", "a", "g", "e">>
S_graalvm == <<"g", "r", "a", "a", "l", "v", "m">>
S_DotDot == <<".", ".">>
S_Slash == <<"/">>
S_Comma == ","
S_TargetJar == <<"t", "a", "r", "g", "e", "t", "/", "I", "G", "r", "a", "a", "l", "V", "M", "-", "1", ".", "0", "-", "S", "N", "A", "P", "S", "H", "O", "T", ".", "j", "a", "r">>
S_IGraalVM_jar == <<"I", "G", "r", "a", "a", "l", "V", "M", ".", "j", "a", "r">>
S_IGraalVM == <<"I", "G", "r", "a", "a", "l", "V", "M">>
S_SlashIGraalVM_jar == <<"/", "I", "G", "r", "a", "a", "l", "V", "M", ".", "j", "a", "r">>
S_SlashIGraalVM == <<"/", "I", "G", "r", "a", "a", "l", "V", "M">>
S_kernel_json == <<"k", "e", "r", "n", "e", "l", ".", "j", "s", "o", "n">>
S_BinJava == <<"/", "b", "i", "n", "/", "j", "a", "v", "a">>
S_BinNativeImage == <<"b", "i", "n", "/", "n", "a", "t", "i", "v", "e", "-", "i", "m", "a", "g", "e">>
S_DashJar == <<"-", "j", "a", "r">>
S_ConnectionFile == <<"{", "c", "o", "n", "n", "e", "c", "t", "i", "o", "n", "_", "f", "i", "l", "e", "}">>
S_ReportStack == <<"-", "H", ":", "+", "R", "e", "p", "o", "r", "t", "E", "x", "c", "e", "p", "t", "i", "o", "n", "S", "t", "a", "c", "k", "T", "r", "a", "c", "e", "s">>
S_NoFallback == <<"-", "-", "n", "o", "-", "f", "a", "l", "l", "b", "a", "c", "k">>
S_ReportUnsupported == <<"-", "-", "r", "e", "p", "o", "r", "t", "-", "u", "n", "s", "u", "p", "p", "o", "r", "t", "e", "d", "-", "e", "l", "e", "m", "e", "n", "t", "s", "-", "a", "t", "-", "r", "u", "n", "t", "i", "m", "e">>
S_LanguagePrefix == <<"-", "-", "l", "a", "n", "g", "u", "a", "g", "e", ":">>
S_mvn == <<"m", "v", "n">>
S_package == <<"p", "a", "c", "k", "a", "g", "e">>

\* ------------------------------------------------------------------------
\* Values the inputs are drawn from
\* ------------------------------------------------------------------------
S_js == <<"j", "s">>
S_js_python == <<"j", "s", ",", "p", "y", "t", "h", "o", "n">>
S_OptGvm == <<"/", "o", "p", "t", "/", "g", "v", "m">>
S_EnvGvm == <<"/", "e", "n", "v", "/", "g", "v", "m">>
S_UsrJdk == <<"/", "u", "s", "r", "/", "j", "d", "k">>
S_PrefixPath == <<"/", "p">>
S_DestA == <<"/", "k", "/", "a">>
S_DestB == <<"/", "k", "/", "b">>
\* directory of the script (os.path.dirname(os.path.abspath(__file__)))
ScriptDir == <<"/", "r", "e", "p", "o">>
\* some other directory the program may be started from
OtherDir == <<"/", "w", "o", "r", "k">>
\* sys.prefix of the running interpreter
SysPrefix == <<"/", "u", "s", "r">>

\* largest number of --timeout occurrences on the command line
MaxTimeouts == 2
\* largest result code a subprocess returns (0 .. MaxRet)
MaxRet == 2

None == <<>>
Some(s) == <<s>>
EmptyStr == <<>>
EmptyDict == <<>>

\* Python truthiness of an optional string: None and '' are false
Truthy(o) == o # None /\ o[1] # EmptyStr

DictGet(d, k, default) == IF k \in DOMAIN d THEN d[k] ELSE default
DictSet(d, k, v) == [x \in (DOMAIN d) \cup {k} |-> IF x = k THEN v ELSE d[x]]

\* str.lstrip(c)
RECURSIVE LStrip(_, _)
LStrip(s, c) == IF s # EmptyStr /\ s[1] = c THEN LStrip(Tail(s), c) ELSE s

\* str.split(c)
RECURSIVE Split(_, _)
Split(s, c) ==
    IF \E i \in 1..Len(s) : s[i] = c
    THEN LET i == CHOOSE k \in 1..Len(s) :
                      s[k] = c /\ \A j \in 1..(k - 1) : s[j] # c
         IN  <<SubSeq(s, 1, i - 1)>> \o Split(SubSeq(s, i + 1, Len(s)), c)
    ELSE <<s>>

\* os.path.join(a, b)
Join(a, b) ==
    IF b # EmptyStr /\ b[1] = "/" THEN b
    ELSE IF a = EmptyStr \/ a[Len(a)] = "/" THEN a \o b
    ELSE a \o S_Slash \o b

\* the parent of an absolute directory path
Parent(s) ==
    LET i == CHOOSE k \in 1..Len(s) :
                  s[k] = "/" /\ \A j \in (k + 1)..Len(s) : s[j] # "/"
    IN  IF i = 1 THEN S_Slash ELSE SubSeq(s, 1, i - 1)

\* the working directory after os.chdir(p) from working directory d
ChdirTarget(d, p) == IF p = S_DotDot THEN Parent(d) ELSE Join(d, p)

\* t occurs in s as a contiguous substring (Python's `t in s`)
Contains(s, t) ==
    \E i \in 0..(Len(s) - Len(t)) : SubSeq(s, i + 1, i + Len(t)) = t

\* ------------------------------------------------------------------------
\* Module-level tables and the argparse helpers
\* ------------------------------------------------------------------------
ALIASES == [e \in {"IJAVA_TIMEOUT"} |-> (S_NO_TIMEOUT :> S_MinusOne)]

\* variant: the option mapped to a key named after this kernel
NAME_MAP_Renamed == (S_timeout :> "IGRAALVM_TIMEOUT")

NAME_MAP == (S_timeout :> "IJAVA_TIMEOUT")

\* type_fn of --timeout is str: it accepts every string
str(v) == TRUE

\* variant: the checker type-checks the raw value and skips the alias lookup
type_assertion_NoAlias(name, value) == [ok |-> str(value), val |-> value]

\* type_assertion(name, str)(value): the checker argparse applies to the
\* raw value; ok is FALSE when type_fn raises (a usage error)
type_assertion(name, value) ==
    LET env == NAME_MAP[name]
        aliases == DictGet(ALIASES, env, EmptyDict)
        alias == DictGet(aliases, value, value)
    IN  [ok |-> str(alias), val |-> alias]

\* EnvVar.__call__: env is namespace.env (a dict, {} when still None),
\* list_sep is optional
EnvVar_call(env, value, option_string, list_sep) ==
    LET name == LStrip(option_string, S_Dash)
        env_var == NAME_MAP[name]
        stored == IF Truthy(list_sep)
                  THEN IF env_var \in DOMAIN env
                       THEN env[env_var] \o list_sep[1] \o value
                       ELSE value
                  ELSE value
    IN  DictSet(env, env_var, stored)

\* argparse processing every --timeout occurrence in order (type, then action)
RECURSIVE ParseTimeouts(_, _)
ParseTimeouts(env, ts) ==
    IF ts = <<>> THEN env
    ELSE ParseTimeouts(
             EnvVar_call(env, type_assertion(S_timeout, Head(ts)).val,
                         S_DashDashTimeout, None),
             Tail(ts))

\* some --timeout value is rejected by the type check
TimeoutRejected(ts) ==
    \E i \in 1..Len(ts) : ~type_assertion(S_timeout, ts[i]).ok

\* number of options of the install_location group present on the command
\* line; an empty --prefix value equals the option's default
LocationCount(c) ==
    (IF c.user THEN 1 ELSE 0) + (IF c.sys_prefix THEN 1 ELSE 0)
        + (IF Truthy(c.prefix) THEN 1 ELSE 0)

\* an empty --prefix value given next to --user or --sys-prefix: whether the
\* group counts it as present depends on the argparse version
AmbiguousLocation(c) ==
    c.prefix = Some(EmptyStr) /\ (c.user \/ c.sys_prefix)
        /\ ~(c.user /\ c.sys_prefix)

\* variant: the default looks at --sys-prefix only
UserDefault_IgnoresPrefix(user, sys_prefix, prefix) ==
    IF ~sys_prefix THEN TRUE ELSE user

\* "User installation by default"
UserDefault(user, sys_prefix, prefix) ==
    IF ~sys_prefix /\ prefix = EmptyStr THEN TRUE ELSE user

\* the namespace after parse_args and the two fix-ups that follow it
ParsedArgs(c) ==
    [user |-> UserDefault(c.user, c.sys_prefix,
                          IF c.prefix = None THEN EmptyStr ELSE c.prefix[1]),
     sys_prefix |-> c.sys_prefix,
     prefix |-> IF c.prefix = None THEN EmptyStr ELSE c.prefix[1],
     env |-> ParseTimeouts(EmptyDict, c.timeouts),
     graalvm |-> c.graalvm,
     native |-> c.native]

\* variant: JAVA_HOME as a last fallback
ResolveGraalvmHome_JavaHome(graalvm, env) ==
    IF Truthy(graalvm) THEN graalvm[1]
    ELSE IF "GRAALVM_HOME" \in DOMAIN env THEN env["GRAALVM_HOME"]
    ELSE IF "JAVA_HOME" \in DOMAIN env THEN env["JAVA_HOME"]
    ELSE EmptyStr

\* graalvm_home: the flag if truthy, else the environment variable
ResolveGraalvmHome(graalvm, env) ==
    IF Truthy(graalvm) THEN graalvm[1]
    ELSE IF "GRAALVM_HOME" \in DOMAIN env THEN env["GRAALVM_HOME"]
    ELSE EmptyStr

\* ------------------------------------------------------------------------
\* The descriptor
\* ------------------------------------------------------------------------
\* variant: the native launch command still names the jar
KernelArgs_NativeJar(native, home, dest) ==
    IF Truthy(native)
    THEN <<dest \o S_SlashIGraalVM_jar, S_ConnectionFile>>
    ELSE <<home \o S_BinJava, S_DashJar, dest \o S_SlashIGraalVM_jar,
           S_ConnectionFile>>

\* kernel_args: the launch command, chosen by `if args.native`
KernelArgs(native, home, dest) ==
    IF Truthy(native)
    THEN <<dest \o S_SlashIGraalVM, S_ConnectionFile>>
    ELSE <<home \o S_BinJava, S_DashJar, dest \o S_SlashIGraalVM_jar,
           S_ConnectionFile>>

\* variant: one display name for both kinds of kernel
DisplayName_Fixed(native) == S_GraalVM

DisplayName(native) == IF Truthy(native) THEN S_GraalVM_Native ELSE S_GraalVM

Language(native) == S_GraalVM

\* variant: the overrides are never merged
MergeEnv_Dropped(base, overrides) == base

\* the loop `for k, v in args.env.items(): kernel_env[k] = v`
MergeEnv(base, overrides) ==
    [k \in (DOMAIN base) \cup (DOMAIN overrides) |->
        IF k \in DOMAIN overrides THEN overrides[k] ELSE base[k]]

KernelJson(a, home, dest) ==
    [argv |-> KernelArgs(a.native, home, dest),
     display_name |-> DisplayName(a.native),
     language |-> Language(a.native),
     interrupt_mode |-> S_message,
     env |-> MergeEnv([k \in {"GRAALVM_HOME"} |-> home], a.env)]

\* the path the descriptor is written to
InstalledKernelJsonPath(dest) == Join(dest, S_kernel_json)

\* the descriptor bundled next to the installer (computed, never opened)
LocalKernelJsonPath == Join(Join(ScriptDir, S_graalvm), S_kernel_json)

\* ------------------------------------------------------------------------
\* The two subprocesses
\* ------------------------------------------------------------------------
\* mvn_env = os.environ; mvn_env["JAVA_HOME"] = graalvm_home
MvnEnv(env, home) == DictSet(env, "JAVA_HOME", home)

\* variant: mvn_env is a copy, os.environ keeps its old JAVA_HOME
EnvironAfterMvnEnv_Copy(env, home) == env

\* os.environ once mvn_env was assigned to (mvn_env is os.environ itself)
EnvironAfterMvnEnv(env, home) == DictSet(env, "JAVA_HOME", home)

RECURSIVE LanguageFlags(_)
LanguageFlags(langs) ==
    IF langs = <<>> THEN <<>>
    ELSE <<S_LanguagePrefix \o Head(langs)>> \o LanguageFlags(Tail(langs))

NativeRunArgs(home, native) ==
    <<Join(home, S_BinNativeImage), S_ReportStack, S_NoFallback,
      S_ReportUnsupported>>
        \o LanguageFlags(Split(native, S_Comma))
        \o <<S_DashJar, S_IGraalVM_jar>>

\* variant: a fixed failure status
ExitStatus_One(rc) == 1

\* the argument of exit() after a subprocess that returned rc # 0
ExitStatus(rc) == rc

\* the status of exit() without an argument
ExitNoArg == 0

\* the status of an argparse usage error (parser.error)
UsageErrorStatus == 2

\* the status of the interpreter after an uncaught exception
UncaughtStatus == 1

RetCodes == 0..MaxRet

\* ------------------------------------------------------------------------
\* The kernel registry: KernelSpecManager().install_kernel_spec copies the
\* source directory to a destination of its own choosing and returns it
\* ------------------------------------------------------------------------
InstallDests == {S_DestA, S_DestB}

IsUnder(p, d) ==
    Len(p) > Len(d) /\ SubSeq(p, 1, Len(d)) = d /\ p[Len(d) + 1] = "/"

CopyTree(files, d, dest) ==
    {dest} \cup {dest \o SubSeq(p, Len(d) + 1, Len(p)) :
                    p \in {q \in files : IsUnder(q, d)}}

\* ------------------------------------------------------------------------
\* Inputs: command line, process environment, working directory, files
\* ------------------------------------------------------------------------
TimeoutValues == {S_NO_TIMEOUT, S_MinusOne, S_Thirty}
TimeoutSeqs == UNION {[1..n -> TimeoutValues] : n \in 0..MaxTimeouts}
PrefixArgs == {None, Some(EmptyStr), Some(S_PrefixPath)}
GraalvmArgs == {None, Some(EmptyStr), Some(S_OptGvm)}
NativeArgs == {None, Some(EmptyStr), Some(S_js), Some(S_js_python)}
Environs ==
    {EmptyDict,
     [k \in {"GRAALVM_HOME"} |-> EmptyStr],
     [k \in {"GRAALVM_HOME"} |-> S_EnvGvm],
     [k \in {"JAVA_HOME"} |-> S_UsrJdk],
     [k \in {"GRAALVM_HOME", "JAVA_HOME"} |->
         IF k = "JAVA_HOME" THEN S_UsrJdk ELSE S_EnvGvm]}

\* files that may or may not exist when the program starts
StaleJar == Join(ScriptDir, S_TargetJar)
FsChoices(d) ==
    {{ScriptDir, OtherDir} \cup opt :
        opt \in SUBSET (IF d = ScriptDir
                        THEN {Join(ScriptDir, S_graalvm), StaleJar}
                        ELSE {Join(OtherDir, S_graalvm), StaleJar})}

VARIABLES start, pc, args, environ, cwd, fs, graalvm_home, kernel_dir,
          kernel_name, install_dest, spawned, registered, written, stdout,
          events, raised, exitCode

vars == <<start, pc, args, environ, cwd, fs, graalvm_home, kernel_dir,
          kernel_name, install_dest, spawned, registered, written, stdout,
          events, raised, exitCode>>

Init ==
    /\ \E u \in BOOLEAN, sp \in BOOLEAN, p \in PrefixArgs,
          ts \in TimeoutSeqs, g \in GraalvmArgs, n \in NativeArgs,
          e \in Environs, d \in {ScriptDir, OtherDir} :
          \E f \in FsChoices(d) :
             start = [user |-> u, sys_prefix |-> sp, prefix |-> p,
                      timeouts |-> ts, graalvm |-> g, native |-> n,
                      environ |-> e, cwd |-> d, fs |-> f]
    /\ pc = "parse"
    /\ args = <<>>
    /\ environ = start.environ
    /\ cwd = start.cwd
    /\ fs = start.fs
    /\ graalvm_home = EmptyStr
    /\ kernel_dir = EmptyStr
    /\ kernel_name = EmptyStr
    /\ install_dest = EmptyStr
    /\ spawned = <<>>
    /\ registered = <<>>
    /\ written = <<>>
    /\ stdout = <<>>
    /\ events = <<>>
    /\ raised = None
    /\ exitCode = None

\* parse_args rejects the command line: two options of the install_location
\* group, or a value the type check refuses
ParseRejects(c) == LocationCount(c) >= 2 \/ TimeoutRejected(c.timeouts)
ParseAccepts(c) == LocationCount(c) <= 1 /\ ~TimeoutRejected(c.timeouts)

ParseError ==
    /\ pc = "parse"
    /\ ParseRejects(start) \/ AmbiguousLocation(start)
    /\ pc' = "exit"
    /\ exitCode' = Some(UsageErrorStatus)
    /\ UNCHANGED <<start, args, environ, cwd, fs, graalvm_home, kernel_dir,
                   kernel_name, install_dest, spawned, registered, written,
                   stdout, events, raised>>

ParseArgs ==
    /\ pc = "parse"
    /\ ParseAccepts(start)
    /\ args' = <<ParsedArgs(start)>>
    /\ pc' = "resolve"
    /\ UNCHANGED <<start, environ, cwd, fs, graalvm_home, kernel_dir,
                   kernel_name, install_dest, spawned, registered, written,
                   stdout, events, raised, exitCode>>

ResolveHome ==
    /\ pc = "resolve"
    /\ LET home == ResolveGraalvmHome(args[1].graalvm, environ)
       IN  IF home = EmptyStr
           THEN /\ stdout' = Append(stdout, "guidance")
                /\ pc' = "exit"
                /\ exitCode' = Some(ExitNoArg)
                /\ UNCHANGED graalvm_home
           ELSE /\ graalvm_home' = home
                /\ pc' = "build"
                /\ UNCHANGED <<stdout, exitCode>>
    /\ UNCHANGED <<start, args, environ, cwd, fs, kernel_dir, kernel_name,
                   install_dest, spawned, registered, written, events,
                   raised>>

RunMvn ==
    /\ pc = "build"
    /\ environ' = EnvironAfterMvnEnv(environ, graalvm_home)
    /\ \E rc \in RetCodes :
          /\ spawned' = Append(spawned,
                 [cmd |-> <<S_mvn, S_package>>, cwd |-> cwd,
                  env |-> MvnEnv(environ, graalvm_home), rc |-> rc])
          /\ IF rc # 0
             THEN /\ pc' = "exit"
                  /\ exitCode' = Some(ExitStatus(rc))
                  /\ UNCHANGED <<fs, events>>
             ELSE /\ fs' = fs \cup {Join(cwd, S_TargetJar)}
                  /\ events' = Append(events, "build")
                  /\ pc' = "move"
                  /\ UNCHANGED exitCode
    /\ UNCHANGED <<start, args, cwd, graalvm_home, kernel_dir, kernel_name,
                   install_dest, registered, written, stdout, raised>>

\* os.mkdir(kernel_dir) unless it exists, then shutil.move of the built jar;
\* a missing source raises FileNotFoundError, which nothing catches
MoveArtifact ==
    /\ pc = "move"
    /\ LET current_dir == ScriptDir
           kdir == Join(current_dir, S_graalvm)
           src == Join(current_dir, S_TargetJar)
           dst == Join(kdir, S_IGraalVM_jar)
       IN  /\ kernel_dir' = kdir
           /\ IF src \in fs
              THEN /\ fs' = ((fs \cup {kdir}) \ {src}) \cup {dst}
                   /\ kernel_name' = S_GraalVM
                   /\ events' = Append(events, "move")
                   /\ pc' = "native"
                   /\ UNCHANGED <<raised, exitCode>>
              ELSE /\ fs' = fs \cup {kdir}
                   /\ raised' = Some("FileNotFoundError")
                   /\ pc' = "exit"
                   /\ exitCode' = Some(UncaughtStatus)
                   /\ UNCHANGED <<kernel_name, events>>
    /\ UNCHANGED <<start, args, environ, cwd, graalvm_home, install_dest,
                   spawned, registered, written, stdout>>

\* the `if args.native:` block
NativeCompile ==
    /\ pc = "native"
    /\ Truthy(args[1].native)
    /\ LET native_run_args == NativeRunArgs(graalvm_home, args[1].native[1])
           target == ChdirTarget(cwd, S_graalvm)
           jar == Join(target, S_IGraalVM_jar)
       IN  IF target \notin fs
           THEN \* os.chdir('graalvm') raises
                /\ raised' = Some("FileNotFoundError")
                /\ pc' = "exit"
                /\ exitCode' = Some(UncaughtStatus)
                /\ UNCHANGED <<cwd, fs, spawned, kernel_name, events>>
           ELSE \E rc \in RetCodes :
                /\ spawned' = Append(spawned,
                       [cmd |-> native_run_args, cwd |-> target,
                        env |-> environ, rc |-> rc])
                /\ IF rc # 0
                   THEN /\ cwd' = target
                        /\ pc' = "exit"
                        /\ exitCode' = Some(ExitStatus(rc))
                        /\ UNCHANGED <<fs, kernel_name, events, raised>>
                   ELSE IF jar \notin fs
                   THEN \* os.remove('IGraalVM.jar') raises
                        /\ cwd' = target
                        /\ fs' = fs \cup {Join(target, S_IGraalVM)}
                        /\ raised' = Some("FileNotFoundError")
                        /\ pc' = "exit"
                        /\ exitCode' = Some(UncaughtStatus)
                        /\ UNCHANGED <<kernel_name, events>>
                   ELSE /\ fs' = (fs \cup {Join(target, S_IGraalVM)}) \ {jar}
                        /\ cwd' = ChdirTarget(target, S_DotDot)
                        /\ kernel_name' = S_GraalVMNative
                        /\ events' = Append(events, "native")
                        /\ pc' = "install"
                        /\ UNCHANGED <<raised, exitCode>>
    /\ UNCHANGED <<start, args, environ, graalvm_home, kernel_dir,
                   install_dest, registered, written, stdout>>

\* args.native is None or empty: the block is skipped
SkipNative ==
    /\ pc = "native"
    /\ ~Truthy(args[1].native)
    /\ pc' = "install"
    /\ UNCHANGED <<start, args, environ, cwd, fs, graalvm_home, kernel_dir,
                   kernel_name, install_dest, spawned, registered, written,
                   stdout, events, raised, exitCode>>

\* the values handed to install_kernel_spec
RegistrarCall(a, kdir, kname) ==
    [source_dir |-> kdir, kernel_name |-> kname, user |-> a.user,
     prefix |-> IF a.sys_prefix THEN SysPrefix ELSE a.prefix]

InstallKernel ==
    /\ pc = "install"
    /\ registered' = Append(registered,
                            RegistrarCall(args[1], kernel_dir, kernel_name))
    /\ \E dest \in InstallDests :
          /\ install_dest' = dest
          /\ fs' = fs \cup CopyTree(fs, kernel_dir, dest)
    /\ events' = Append(events, "register")
    /\ pc' = "patch"
    /\ UNCHANGED <<start, args, environ, cwd, graalvm_home, kernel_dir,
                   kernel_name, spawned, written, stdout, raised, exitCode>>

\* install_kernel_spec raises: nothing catches it
InstallKernelFails ==
    /\ pc = "install"
    /\ registered' = Append(registered,
                            RegistrarCall(args[1], kernel_dir, kernel_name))
    /\ raised' = Some("InstallError")
    /\ pc' = "exit"
    /\ exitCode' = Some(UncaughtStatus)
    /\ UNCHANGED <<start, args, environ, cwd, fs, graalvm_home, kernel_dir,
                   kernel_name, install_dest, spawned, written, stdout,
                   events>>

\* build kernel_json and json.dump it into the installed kernel.json
WriteDescriptor ==
    /\ pc = "patch"
    /\ LET path == InstalledKernelJsonPath(install_dest)
       IN  /\ written' = Append(written,
                  [path |-> path,
                   json |-> KernelJson(args[1], graalvm_home, install_dest)])
           /\ fs' = fs \cup {path}
    /\ stdout' = Append(stdout, "installed")
    /\ events' = Append(events, "write")
    /\ pc' = "exit"
    /\ exitCode' = Some(ExitNoArg)
    /\ UNCHANGED <<start, args, environ, cwd, graalvm_home, kernel_dir,
                   kernel_name, install_dest, spawned, registered, raised>>

Next ==
    \/ ParseError
    \/ ParseArgs
    \/ ResolveHome
    \/ RunMvn
    \/ MoveArtifact
    \/ NativeCompile
    \/ SkipNative
    \/ InstallKernel
    \/ InstallKernelFails
    \/ WriteDescriptor

Spec == Init /\ [][Next]_vars

\* ------------------------------------------------------------------------
\* Properties
\* ------------------------------------------------------------------------
\* the runtime-home the inputs determine: the --graalvm value if non-empty,
\* else the GRAALVM_HOME environment variable ('' when there is none)
ExpectedHome ==
    IF start.graalvm # <<>> /\ start.graalvm[1] # <<>>
    THEN start.graalvm[1]
    ELSE IF "GRAALVM_HOME" \in DOMAIN start.environ
         THEN start.environ["GRAALVM_HOME"]
         ELSE <<>>

\* --native was given with a non-empty language list
NativeRequested == start.native # <<>> /\ start.native[1] # <<>>

\* --native was given at all, possibly with an empty value
NativeSupplied == start.native # <<>>

\* the directory next to the script the jar is moved into
StagingDir == ScriptDir \o <<"/">> \o S_graalvm

\* the alias expansion of one --timeout value, written out
Expanded(v) == IF v = S_NO_TIMEOUT THEN <<"-", "1">> ELSE v

LastTimeout == start.timeouts[Len(start.timeouts)]

\* C1: a subprocess (mvn package, or native-image) that returns a non-zero
\* code is the last thing the run does: the program has exited with exactly
\* that code, no further subprocess was started (no retry), nothing was
\* registered or written, and after a failed build no file was moved.
C1_FailurePropagates ==
    /\ Len(spawned) <= 2
    /\ \A i \in 1..Len(spawned) :
          /\ spawned[i].cmd[1] = S_mvn <=> i = 1
          /\ spawned[i].rc # 0 =>
                /\ i = Len(spawned)
                /\ pc = "exit"
                /\ exitCode = <<spawned[i].rc>>
                /\ raised = <<>>
                /\ registered = <<>>
                /\ written = <<>>
                /\ "register" \notin {events[k] : k \in 1..Len(events)}
                /\ i = 1 => (events = <<>> /\ fs = start.fs)

C1_Witness ==
    /\ pc = "exit"
    /\ Len(spawned) = 2
    /\ spawned[1].rc = 0
    /\ spawned[2].rc = 2
    /\ exitCode = <<2>>

\* C2: when neither --graalvm nor GRAALVM_HOME gives a non-empty
\* runtime-home, every accepted run ends right after the resolution step with
\* the guidance message printed and status 0, no exception, no subprocess, no
\* file change, no registration, no descriptor.
C2_MissingHomeSoftExit ==
    (args # <<>> /\ ExpectedHome = <<>> /\ pc # "resolve") =>
        /\ pc = "exit"
        /\ exitCode = <<0>>
        /\ stdout = <<"guidance">>
        /\ raised = <<>>
        /\ spawned = <<>>
        /\ fs = start.fs
        /\ environ = start.environ
        /\ registered = <<>>
        /\ written = <<>>

C2_Witness ==
    /\ pc = "exit"
    /\ args # <<>>
    /\ start.graalvm = << <<>> >>
    /\ "GRAALVM_HOME" \notin DOMAIN start.environ
    /\ "JAVA_HOME" \in DOMAIN start.environ
    /\ stdout = <<"guidance">>

\* the two shapes of argv
NativeArgv == <<install_dest \o S_SlashIGraalVM, S_ConnectionFile>>
JarArgv ==
    <<graalvm_home \o S_BinJava, S_DashJar,
      install_dest \o S_SlashIGraalVM_jar, S_ConnectionFile>>

\* C3 as stated: whenever a descriptor is written, argv is the native shape
\* if --native was supplied and the jar shape otherwise.
C3_AsStated ==
    \A i \in 1..Len(written) :
        written[i].json.argv = IF NativeSupplied THEN NativeArgv ELSE JarArgv

\* C3 amended: whenever a descriptor is written, argv is the native shape if
\* --native was supplied with a non-empty value, and the jar shape otherwise
\* (--native absent or empty); the last token is always the literal
\* {connection_file}.
C3_ArgvShape ==
    \A i \in 1..Len(written) :
        LET argv == written[i].json.argv
        IN  /\ argv = IF NativeRequested THEN NativeArgv ELSE JarArgv
            /\ argv[Len(argv)] = S_ConnectionFile

C3_Witness ==
    /\ written # <<>>
    /\ start.native = <<S_js_python>>
    /\ Len(written[1].json.argv) = 2

\* C4 as stated: with native languages requested both display_name and
\* language contain "Native"; without, neither does.
C4_AsStated ==
    \A i \in 1..Len(written) :
        /\ Contains(written[i].json.display_name, S_Native) <=> NativeRequested
        /\ Contains(written[i].json.language, S_Native) <=> NativeRequested

\* C4 amended: display_name contains "Native" exactly when native languages
\* are requested; the language field is "GraalVM" in both cases and never
\* contains "Native".
C4_DisplayNameOnly ==
    \A i \in 1..Len(written) :
        /\ Contains(written[i].json.display_name, S_Native) <=> NativeRequested
        /\ written[i].json.language = S_GraalVM
        /\ ~Contains(written[i].json.language, S_Native)

C4_Witness ==
    /\ written # <<>>
    /\ NativeRequested
    /\ written[1].json.display_name = S_GraalVM_Native

\* C5: the env map of a written descriptor holds GRAALVM_HOME equal to the
\* resolved runtime-home and, when --timeout occurred, the override with the
\* alias-expanded value of its last occurrence, and nothing else.
C5_EnvMerged ==
    \A i \in 1..Len(written) :
        LET env == written[i].json.env
        IN  /\ "GRAALVM_HOME" \in DOMAIN env
            /\ env["GRAALVM_HOME"] = ExpectedHome
            /\ ExpectedHome # <<>>
            /\ start.timeouts # <<>> =>
                  \E k \in (DOMAIN env) \ {"GRAALVM_HOME"} :
                      env[k] = Expanded(LastTimeout)
            /\ Cardinality(DOMAIN env) =
                  IF start.timeouts = <<>> THEN 1 ELSE 2

C5_Witness ==
    /\ written # <<>>
    /\ start.graalvm = << <<>> >>
    /\ Len(start.timeouts) = 2
    /\ start.timeouts[2] = S_NO_TIMEOUT
    /\ start.timeouts[1] = S_Thirty

\* the input of the example: --timeout NO_TIMEOUT --graalvm /opt/gvm
ExampleInput ==
    /\ start.timeouts = <<S_NO_TIMEOUT>>
    /\ start.graalvm = <<S_OptGvm>>
    /\ start.native = <<>>

ExampleArgv ==
    <<S_OptGvm \o S_BinJava, S_DashJar, install_dest \o S_SlashIGraalVM_jar,
      S_ConnectionFile>>

\* C6 as stated: the example input yields env = {GRAALVM_HOME: /opt/gvm,
\* IGRAALVM_TIMEOUT: -1} and the jar argv.
C6_AsStated ==
    (ExampleInput /\ written # <<>>) =>
        /\ written[1].json.env =
              [k \in {"GRAALVM_HOME", "IGRAALVM_TIMEOUT"} |->
                  IF k = "GRAALVM_HOME" THEN S_OptGvm ELSE <<"-", "1">>]
        /\ written[1].json.argv = ExampleArgv

\* C6 amended: the example input yields env = {GRAALVM_HOME: /opt/gvm,
\* IJAVA_TIMEOUT: -1} and the jar argv: the timeout override is stored under
\* the key IJAVA_TIMEOUT.
C6_Example ==
    (ExampleInput /\ written # <<>>) =>
        /\ written[1].json.env =
              [k \in {"GRAALVM_HOME", "IJAVA_TIMEOUT"} |->
                  IF k = "GRAALVM_HOME" THEN S_OptGvm ELSE <<"-", "1">>]
        /\ written[1].json.argv = ExampleArgv

C6_Witness ==
    /\ ExampleInput
    /\ written # <<>>
    /\ Len(spawned) = 1

\* C7: after an accepted parse the value stored for --timeout is "-1" if the
\* (last) VALUE is NO_TIMEOUT and VALUE itself otherwise; a command line is
\* rejected only for its install-location options, never for a --timeout
\* value.
C7_AliasResolution ==
    /\ (args # <<>> /\ start.timeouts # <<>>) =>
          /\ DOMAIN args[1].env = {"IJAVA_TIMEOUT"}
          /\ LastTimeout = S_NO_TIMEOUT =>
                args[1].env["IJAVA_TIMEOUT"] = <<"-", "1">>
          /\ LastTimeout # S_NO_TIMEOUT =>
                args[1].env["IJAVA_TIMEOUT"] = LastTimeout
    /\ (args # <<>> /\ start.timeouts = <<>>) => DOMAIN args[1].env = {}
    /\ (pc = "exit" /\ args = <<>>) =>
          Cardinality({o \in {"user", "sys_prefix", "prefix"} :
              \/ o = "user" /\ start.user
              \/ o = "sys_prefix" /\ start.sys_prefix
              \/ o = "prefix" /\ start.prefix # <<>>}) >= 2

C7_Witness ==
    /\ args # <<>>
    /\ start.timeouts = <<S_NO_TIMEOUT>>
    /\ args[1].env["IJAVA_TIMEOUT"] = <<"-", "1">>

\* the install-location options given with a non-empty value
GivenLocations ==
    {o \in {"user", "sys_prefix", "prefix"} :
        \/ o = "user" /\ start.user
        \/ o = "sys_prefix" /\ start.sys_prefix
        \/ o = "prefix" /\ start.prefix # <<>> /\ start.prefix[1] # <<>>}

UserActive(r) == r.user /\ r.prefix = <<>>
SysPrefixActive(r) == ~r.user /\ start.sys_prefix /\ r.prefix = SysPrefix
PrefixActive(r) ==
    /\ ~r.user /\ ~start.sys_prefix
    /\ start.prefix # <<>> /\ r.prefix = start.prefix[1] /\ r.prefix # <<>>

C9_NativeWorkingDirectory ==
    Len(spawned) = 2 =>
        /\ spawned[2].cwd = StagingDir
        /\ spawned[2].rc = 0 =>
              /\ (StagingDir \o S_SlashIGraalVM_jar) \notin fs
              /\ cwd = start.cwd
        /\ spawned[2].rc # 0 =>
              /\ pc = "exit"
              /\ cwd = StagingDir
              /\ (StagingDir \o S_SlashIGraalVM_jar) \in fs

\* the order of the steps a run completes
StepOrder ==
    IF NativeRequested
    THEN <<"build", "move", "native", "register", "write">>
    ELSE <<"build", "move", "register", "write">>

\* C10: the completed steps are a prefix of the one forward order; every
\* subprocess is spawned with JAVA_HOME equal to the resolved runtime-home;
\* registration follows a build that returned 0, the move and (with native
\* languages) a compile that returned 0; the descriptor is written once,
\* after registration, to kernel.json in the destination the registrar
\* returned, not in the staging directory.
C10_ForwardOrder ==
    /\ Len(events) <= Len(StepOrder)
    /\ events = SubSeq(StepOrder, 1, Len(events))
    /\ \A i \in 1..Len(spawned) :
          /\ "JAVA_HOME" \in DOMAIN spawned[i].env
          /\ spawned[i].env["JAVA_HOME"] = ExpectedHome
          /\ ExpectedHome # <<>>
    /\ registered # <<>> =>
          /\ Len(registered) = 1
          /\ spawned # <<>> /\ spawned[1].rc = 0
          /\ Len(events) >= 2 /\ events[2] = "move"
          /\ NativeRequested =>
                (Len(spawned) = 2 /\ spawned[2].rc = 0 /\ events[3] = "native")
          /\ registered[1].source_dir = StagingDir
    /\ written # <<>> =>
          /\ Len(written) = 1
          /\ registered # <<>>
          /\ install_dest \in InstallDests
          /\ written[1].path = install_dest \o <<"/">> \o S_kernel_json
          /\ written[1].path # StagingDir \o <<"/">> \o S_kernel_json
          /\ events[Len(events)] = "write"
          /\ events[Len(events) - 1] = "register"

C10_Witness ==
    /\ written # <<>>
    /\ Len(spawned) = 2
    /\ "JAVA_HOME" \in DOMAIN start.environ
    /\ start.environ["JAVA_HOME"] # spawned[2].env["JAVA_HOME"]

====
